---- MODULE Spec2Model ----
(***************************************************************************)
(* A model of bot.py: the DataSearchBot handlers, the two conversation     *)
(* handlers and the catch-all message handler wired in main(), the call    *)
(* to the external search API and the formatting of its answer.            *)
(*                                                                         *)
(* Text is a sequence of chunks.  A chunk is a piece of a Python string:   *)
(* one character in user input, a literal of the source in replies.        *)
(* Characters outside ASCII are written by their code point ("U+274C").    *)
(***************************************************************************)
EXTENDS Integers, Sequences, FiniteSets, TLC

VARIABLES
    search_conv,   \* search_conv's conversation table: session -> state
    api_conv,      \* api_conv's conversation table: session -> state
    api_key,       \* bot.api_key, one field of the one DataSearchBot
    key_saved_by,  \* history: who wrote api_key, "env" or a session
    run,           \* the handler invocation in progress, or the last one
    update_queue,  \* application.update_queue: updates fetched, not yet
                   \* dispatched
    format_call    \* one call of format_api_response: its arguments and,
                   \* once it has returned, what it returned

vars ==
    <<search_conv, api_conv, api_key, key_saved_by, run, update_queue,
      format_call>>

----------------------------------------------------------------------------
(* Bounds and input domains *)

MaxTextLen == 2

Sessions == {"A", "B"}

Whitespace == {" "}

Chars == {" ", "a"}

\* range(2) at bot.py:22; END is ConversationHandler.END, which removes the
\* session's entry from the conversation table.
SEARCH == 0

API_SETUP == 1

END == -1

\* os.environ.get("API_KEY", "YOUR_API_KEY_HERE")
SentinelKey == <<"YOUR_API_KEY_HERE">>

RECURSIVE SeqsUpTo(_, _)
SeqsUpTo(S, n) ==
    IF n = 0 THEN {<<>>}
    ELSE LET shorter == SeqsUpTo(S, n - 1)
         IN  shorter \cup {Append(t, c) : t \in shorter, c \in S}

\* The text of a plain message: never empty (filters.TEXT needs a text).
PlainTexts == (SeqsUpTo(Chars, MaxTextLen) \ {<<>>}) \cup {SentinelKey}

\* A message that starts with a bot command.
CommandTexts ==
    {<<"/start">>, <<"/help">>, <<"/search">>, <<"/setapi">>, <<"/cancel">>,
     <<"/other">>}

Updates == [session : Sessions, text : PlainTexts \cup CommandTexts]

\* The values API_KEY can have when the process starts.
InitialKeys == {SentinelKey, <<>>, <<"k">>}

----------------------------------------------------------------------------
(* str.strip() *)

RECURSIVE lstrip(_)
lstrip(t) ==
    IF t # <<>> /\ Head(t) \in Whitespace THEN lstrip(Tail(t)) ELSE t

RECURSIVE rstrip(_)
rstrip(t) ==
    IF t # <<>> /\ t[Len(t)] \in Whitespace
    THEN rstrip(SubSeq(t, 1, Len(t) - 1))
    ELSE t

strip(t) == rstrip(lstrip(t))

----------------------------------------------------------------------------
(* The fixed texts of the source *)

WelcomeText ==
    <<"U+1F44B", " Welcome to *OSINT Bot*\n\n",
      "You can search leaked data by:\n",
      "U+1F4E7", " Email / domain\n",
      "U+1F464", " Name / Nickname\n",
      "U+1F4F1", " Phone\n",
      "U+1F511", " Password\n",
      "U+1F697", " Car number / VIN\n",
      "U+2708", " Telegram / FB / VK / IG account\n",
      "U+1F4CD", " IP\n\n",
      "U+1F4C3", " You can also send multiple queries (each on a new line).\n\n",
      "U+1F534", " *Credit by Smart Sunny*">>

HelpText ==
    <<"U+1F916", " **Bot Commands:**\n\n",
      "/start - Start bot\n",
      "/help - Show help\n",
      "/search - Start new search\n",
      "/setapi - Configure API key\n",
      "/cancel - Cancel current operation\n\n",
      "U+2705", " Example searches:\n",
      "U+0060", "example@gmail.com", "U+0060", "\n",
      "U+0060", "+79002206090", "U+0060", "\n",
      "U+0060", "127.0.0.1", "U+0060", "\n",
      "U+0060", "Petrov Maxim", "U+0060", "\n",
      "U+0060", "O999", "U+041C", "U+0423", "777", "U+0060", "\n",
      "U+0060", "123qwe", "U+0060", "\n\n",
      "U+1F4C3", " Mass Search: send multiple queries, one per line.">>

SearchPrompt ==
    <<"U+1F50D", " Please enter your query:\n\n",
      "You can enter email, phone, IP, VIN, username, etc.\n",
      "U+1F449", " Multiple queries? Send them line by line.">>

CancelText == <<"U+274C", " Operation cancelled.">>

ApiKeyPrompt == <<"Please send your API key:">>

ApiKeySavedText == <<"U+2705", " API key updated successfully!">>

NotConfiguredText == <<"U+274C", " API not configured. Use /setapi.">>

InvalidKeyText == <<"U+274C", " Invalid API key.">>

QuotaExceededText == <<"U+274C", " API quota exceeded.">>

TransportErrorText == <<"U+274C", " Error contacting API.">>

UpstreamErrorText(status) == <<"U+274C", " API error: ", ToString(status)>>

----------------------------------------------------------------------------
(* The answer of the external API *)

\* One item of the "results" array.  An item that is no JSON object has
\* is_mapping FALSE; a key the object lacks has its has_ field FALSE.
FullFinding ==
    [is_mapping |-> TRUE, has_type |-> TRUE, type |-> "email",
     has_value |-> TRUE, value |-> "a@b.c",
     has_details |-> TRUE, details |-> <<<<"source", "leak1">>>>]

BareFinding ==
    [is_mapping |-> TRUE, has_type |-> FALSE, type |-> "",
     has_value |-> FALSE, value |-> "",
     has_details |-> FALSE, details |-> <<>>]

PhoneFinding ==
    [is_mapping |-> TRUE, has_type |-> TRUE, type |-> "phone",
     has_value |-> TRUE, value |-> "+7900",
     has_details |-> TRUE, details |-> <<>>]

NotAFinding ==
    [is_mapping |-> FALSE, has_type |-> FALSE, type |-> "",
     has_value |-> FALSE, value |-> "",
     has_details |-> FALSE, details |-> <<>>]

ResultLists ==
    {<<>>, <<FullFinding>>, <<BareFinding>>, <<PhoneFinding, FullFinding>>,
     <<FullFinding, NotAFinding>>}

\* What response.json() returns: a JSON object with or without "results",
\* or a JSON value that is no object.
JsonValues ==
    [is_mapping : {TRUE}, has_results : {TRUE}, results : ResultLists]
    \cup {[is_mapping |-> TRUE, has_results |-> FALSE, results |-> <<>>],
          [is_mapping |-> FALSE, has_results |-> FALSE, results |-> <<>>]}

NoJson == [is_mapping |-> FALSE, has_results |-> FALSE, results |-> <<>>]

StatusCodes == {200, 401, 402, 404, 500}

\* What requests.post does: it returns a response, or it raises.  Only a
\* 200 response has its body read.
Responses ==
    [kind : {"response"}, status : {200}, is_json : {TRUE}, json : JsonValues]
    \cup [kind : {"response"}, status : StatusCodes, is_json : {FALSE},
          json : {NoJson}]
    \cup [kind : {"timeout", "connection_error"}, status : {0},
          is_json : {FALSE}, json : {NoJson}]

NoResponse ==
    [kind |-> "none", status |-> 0, is_json |-> FALSE, json |-> NoJson]

----------------------------------------------------------------------------
(* format_api_response *)

DividerWidth == 30

RECURSIVE Repeat(_, _)
Repeat(chunk, n) == IF n = 0 THEN <<>> ELSE <<chunk>> \o Repeat(chunk, n - 1)

\* for k, val in details.items(): text += f"  - {k}: {val}\n"
RECURSIVE DetailLines(_)
DetailLines(details) ==
    IF details = <<>> THEN <<>>
    ELSE <<"  - ", Head(details)[1], ": ", Head(details)[2], "\n">>
         \o DetailLines(Tail(details))

\* The body of the loop over results, for one item r that is a mapping.
FindingBlock(r) ==
    LET t == IF r.has_type THEN r.type ELSE "Unknown"
        v == IF r.has_value THEN r.value ELSE "N/A"
        details == IF r.has_details THEN r.details ELSE <<>>
    IN  <<"U+1F4CB", " Type: ", t, "\n", "U+1F50E", " Value: ", v, "\n">>
        \o (IF details # <<>> THEN DetailLines(details) ELSE <<>>)
        \o Repeat("U+2500", DividerWidth) \o <<"\n\n">>

\* Mutant: the blocks come out last finding first.
RECURSIVE FindingBlocks_reversed(_)
FindingBlocks_reversed(results) ==
    IF results = <<>> THEN <<>>
    ELSE FindingBlocks_reversed(Tail(results)) \o FindingBlock(Head(results))

RECURSIVE FindingBlocks(_)
FindingBlocks(results) ==
    IF results = <<>> THEN <<>>
    ELSE FindingBlock(Head(results)) \o FindingBlocks(Tail(results))

\* r.get raises AttributeError on an item that is no mapping.
AllMappings(results) == \A i \in 1..Len(results) : results[i].is_mapping

\* Mutant: an empty result list is formatted like any other.
format_api_response_no_empty_case(data, query) ==
    IF ~data.is_mapping THEN [raised |-> TRUE, text |-> <<>>]
    ELSE LET results == IF data.has_results THEN data.results ELSE <<>>
         IN  IF ~AllMappings(results)
             THEN [raised |-> TRUE, text |-> <<>>]
             ELSE [raised |-> FALSE,
                   text |-> <<"U+1F50D", " Results for: ">> \o query
                            \o <<"\n\n">>
                            \o FindingBlocks(results)
                            \o <<"U+1F4CA", " Found ", ToString(Len(results)),
                                 " results.\n\n",
                                 "U+1F534", " *Credit by Smart Sunny*">>]

\* [raised, text]: raised when data.get or r.get raises, text the return
\* value otherwise.
format_api_response(data, query) ==
    IF ~data.is_mapping THEN [raised |-> TRUE, text |-> <<>>]
    ELSE LET results == IF data.has_results THEN data.results ELSE <<>>
         IN  IF results = <<>>
             THEN [raised |-> FALSE,
                   text |-> <<"U+1F50D", " No results found for: ">> \o query]
             ELSE IF ~AllMappings(results)
             THEN [raised |-> TRUE, text |-> <<>>]
             ELSE [raised |-> FALSE,
                   text |-> <<"U+1F50D", " Results for: ">> \o query
                            \o <<"\n\n">>
                            \o FindingBlocks(results)
                            \o <<"U+1F4CA", " Found ", ToString(Len(results)),
                                 " results.\n\n",
                                 "U+1F534", " *Credit by Smart Sunny*">>]

----------------------------------------------------------------------------
(* call_universal_api *)

\* Mutant: the comparison with the placeholder key is missing.
api_not_configured_empty_only(key) == key = <<>>

\* if not self.api_key or self.api_key == "YOUR_API_KEY_HERE"
api_not_configured(key) == key = <<>> \/ key = SentinelKey

\* Mutant: the elif for status 402 is missing.
api_result_no_402(resp, query) ==
    LET caught == [raised |-> FALSE, text |-> TransportErrorText,
                   logged |-> TRUE]
        returns(text) == [raised |-> FALSE, text |-> text, logged |-> FALSE]
    IN  IF resp.kind # "response" THEN caught
        ELSE IF resp.status = 200
        THEN IF ~resp.is_json THEN caught
             ELSE LET formatted == format_api_response(resp.json, query)
                  IN  IF formatted.raised THEN caught
                      ELSE returns(formatted.text)
        ELSE IF resp.status = 401 THEN returns(InvalidKeyText)
        ELSE returns(UpstreamErrorText(resp.status))

\* Mutant: the reply of the except clause names the exception.
api_result_shows_detail(resp, query) ==
    LET caught(detail) == [raised |-> FALSE,
                           text |-> TransportErrorText \o <<detail>>,
                           logged |-> TRUE]
        returns(text) == [raised |-> FALSE, text |-> text, logged |-> FALSE]
    IN  IF resp.kind # "response" THEN caught(resp.kind)
        ELSE IF resp.status = 200
        THEN IF ~resp.is_json THEN caught("JSONDecodeError")
             ELSE LET formatted == format_api_response(resp.json, query)
                  IN  IF formatted.raised THEN caught("AttributeError")
                      ELSE returns(formatted.text)
        ELSE IF resp.status = 401 THEN returns(InvalidKeyText)
        ELSE IF resp.status = 402 THEN returns(QuotaExceededText)
        ELSE returns(UpstreamErrorText(resp.status))

\* Mutant: response.json() and format_api_response run outside the try.
api_result_uncaught(resp, query) ==
    LET caught == [raised |-> FALSE, text |-> TransportErrorText,
                   logged |-> TRUE]
        escapes == [raised |-> TRUE, text |-> <<>>, logged |-> FALSE]
        returns(text) == [raised |-> FALSE, text |-> text, logged |-> FALSE]
    IN  IF resp.kind # "response" THEN caught
        ELSE IF resp.status = 200
        THEN IF ~resp.is_json THEN escapes
             ELSE LET formatted == format_api_response(resp.json, query)
                  IN  IF formatted.raised THEN escapes
                      ELSE returns(formatted.text)
        ELSE IF resp.status = 401 THEN returns(InvalidKeyText)
        ELSE IF resp.status = 402 THEN returns(QuotaExceededText)
        ELSE returns(UpstreamErrorText(resp.status))

\* The try block from the return of requests.post on, and the except
\* clause: [raised, text, logged].  except Exception catches whatever
\* requests.post, response.json and format_api_response raise, so nothing
\* is raised to the handler; logged says whether logger.error ran.
api_result(resp, query) ==
    LET caught == [raised |-> FALSE, text |-> TransportErrorText,
                   logged |-> TRUE]
        returns(text) == [raised |-> FALSE, text |-> text, logged |-> FALSE]
    IN  IF resp.kind # "response" THEN caught
        ELSE IF resp.status = 200
        THEN IF ~resp.is_json THEN caught
             ELSE LET formatted == format_api_response(resp.json, query)
                  IN  IF formatted.raised THEN caught
                      ELSE returns(formatted.text)
        ELSE IF resp.status = 401 THEN returns(InvalidKeyText)
        ELSE IF resp.status = 402 THEN returns(QuotaExceededText)
        ELSE returns(UpstreamErrorText(resp.status))

----------------------------------------------------------------------------
(* The handlers registered in main() and how an update finds its handler *)

\* filters.COMMAND: the message starts with a bot command.
IsCommand(u) == \E c \in CommandTexts : Head(u.text) = Head(c)

\* Mutant: the filter is filters.TEXT alone.
IsPlainText_any(u) == u.text # <<>>

\* filters.TEXT & ~filters.COMMAND
IsPlainText(u) == u.text # <<>> /\ ~IsCommand(u)

\* CommandHandler(name, ...)
CommandIs(u, name) == Head(u.text) = name

\* search_conv: the entry point when the session has no conversation, else
\* the handlers of the state and then the fallbacks.
search_conv_handler(u) ==
    IF search_conv[u.session] = END
    THEN IF CommandIs(u, "/search") THEN "search" ELSE "none"
    ELSE IF search_conv[u.session] = SEARCH /\ IsPlainText(u)
    THEN "perform_search"
    ELSE IF CommandIs(u, "/cancel") THEN "cancel" ELSE "none"

\* api_conv, likewise.
api_conv_handler(u) ==
    IF api_conv[u.session] = END
    THEN IF CommandIs(u, "/setapi") THEN "setup_api" ELSE "none"
    ELSE IF api_conv[u.session] = API_SETUP /\ IsPlainText(u)
    THEN "save_api_key"
    ELSE IF CommandIs(u, "/cancel") THEN "cancel" ELSE "none"

\* The handlers are all in one group: the first one, in the order of the
\* add_handler calls, that accepts the update handles it, and no other.
Route(u) ==
    IF CommandIs(u, "/start") THEN [handler |-> "start", conv |-> "none"]
    ELSE IF CommandIs(u, "/help") THEN [handler |-> "help", conv |-> "none"]
    ELSE IF search_conv_handler(u) # "none"
    THEN [handler |-> search_conv_handler(u), conv |-> "search_conv"]
    ELSE IF api_conv_handler(u) # "none"
    THEN [handler |-> api_conv_handler(u), conv |-> "api_conv"]
    ELSE IF IsPlainText(u)
    THEN [handler |-> "handle_message", conv |-> "none"]
    ELSE [handler |-> "none", conv |-> "none"]

\* update.message.reply_text(text): one message to the chat of the update.
reply_text(u, text) == [chat |-> u.session, text |-> text]

\* A conversation table after the handler of session s returned state.
conv_update(table, s, state) == [table EXCEPT ![s] = state]

NoUpdate == [session |-> "none", text |-> <<>>]

\* The record of a handler invocation for update u, before the handler has
\* done anything: what the handler sent and called, and the state of the
\* session when the update was dispatched.
Invocation(u, route) ==
    [update |-> u, handler |-> route.handler, conv |-> route.conv,
     pc |-> "done", query |-> <<>>, typing |-> 0, lookups |-> 0,
     requests |-> 0, bearer |-> <<>>, resp |-> NoResponse, logged |-> FALSE,
     replies |-> <<>>,
     before |-> [search |-> IF u.session \in Sessions
                            THEN search_conv[u.session] ELSE END,
                 api |-> IF u.session \in Sessions
                         THEN api_conv[u.session] ELSE END,
                 key |-> api_key, key_saved_by |-> key_saved_by]]

NoFormatCall ==
    [data |-> NoJson, query |-> <<>>, returned |-> FALSE, raised |-> FALSE,
     text |-> <<>>]

Init ==
    /\ search_conv = [s \in Sessions |-> END]
    /\ api_conv = [s \in Sessions |-> END]
    /\ api_key \in InitialKeys
    /\ key_saved_by = "env"
    /\ run = Invocation(NoUpdate, [handler |-> "none", conv |-> "none"])
    /\ update_queue = <<>>
    /\ format_call = NoFormatCall

\* Mutant: updates are processed concurrently and the HTTP call does not
\* block the event loop.
Dispatch_concurrent(u, handler) == Route(u).handler = handler

\* Updates are processed one at a time, and requests.post blocks the event
\* loop: no handler starts while another one has not returned.
Dispatch(u, handler) == run.pc = "done" /\ Route(u).handler = handler

\* Mutant: /start also ends the search conversation of the session.
start_ends_conversation(u) ==
    /\ Dispatch(u, "start")
    /\ run' = [Invocation(u, Route(u)) EXCEPT
                   !.replies = <<reply_text(u, WelcomeText)>>]
    /\ search_conv' = conv_update(search_conv, u.session, END)
    /\ UNCHANGED <<api_conv, api_key, key_saved_by>>

start(u) ==
    /\ Dispatch(u, "start")
    /\ run' = [Invocation(u, Route(u)) EXCEPT
                   !.replies = <<reply_text(u, WelcomeText)>>]
    /\ UNCHANGED <<search_conv, api_conv, api_key, key_saved_by>>

help(u) ==
    /\ Dispatch(u, "help")
    /\ run' = [Invocation(u, Route(u)) EXCEPT
                   !.replies = <<reply_text(u, HelpText)>>]
    /\ UNCHANGED <<search_conv, api_conv, api_key, key_saved_by>>

search(u) ==
    /\ Dispatch(u, "search")
    /\ run' = [Invocation(u, Route(u)) EXCEPT
                   !.replies = <<reply_text(u, SearchPrompt)>>]
    /\ search_conv' = conv_update(search_conv, u.session, SEARCH)
    /\ UNCHANGED <<api_conv, api_key, key_saved_by>>

\* Mutant: the query is the text as received, strip() is not called.
begin_lookup_unstripped(u) ==
    LET inv == [Invocation(u, Route(u)) EXCEPT
                    !.query = u.text, !.typing = 1, !.lookups = 1]
    IN  IF api_not_configured(api_key)
        THEN [inv EXCEPT !.replies = <<reply_text(u, NotConfiguredText)>>]
        ELSE [inv EXCEPT !.pc = "http", !.requests = 1, !.bearer = api_key]

\* perform_search and handle_message up to the call of requests.post, or to
\* their end when call_universal_api returns before it.
begin_lookup(u) ==
    LET inv == [Invocation(u, Route(u)) EXCEPT
                    !.query = strip(u.text), !.typing = 1, !.lookups = 1]
    IN  IF api_not_configured(api_key)
        THEN [inv EXCEPT !.replies = <<reply_text(u, NotConfiguredText)>>]
        ELSE [inv EXCEPT !.pc = "http", !.requests = 1, !.bearer = api_key]

\* Mutant: while the session also awaits an API key, the text looked up is
\* stored as the key as well.
perform_search_and_save(u) ==
    /\ Dispatch(u, "perform_search")
    /\ run' = begin_lookup(u)
    /\ search_conv' = IF run'.pc = "done"
                      THEN conv_update(search_conv, u.session, END)
                      ELSE search_conv
    /\ IF api_conv[u.session] = API_SETUP
       THEN /\ api_key' = strip(u.text)
            /\ key_saved_by' = u.session
            /\ api_conv' = conv_update(api_conv, u.session, END)
       ELSE UNCHANGED <<api_conv, api_key, key_saved_by>>

perform_search(u) ==
    /\ Dispatch(u, "perform_search")
    /\ run' = begin_lookup(u)
    /\ search_conv' = IF run'.pc = "done"
                      THEN conv_update(search_conv, u.session, END)
                      ELSE search_conv
    /\ UNCHANGED <<api_conv, api_key, key_saved_by>>

handle_message(u) ==
    /\ Dispatch(u, "handle_message")
    /\ run' = begin_lookup(u)
    /\ UNCHANGED <<search_conv, api_conv, api_key, key_saved_by>>

\* Mutant: a request that got no response is sent once more.
requests_post_returns_retries(resp) ==
    IF resp.kind # "response" /\ run.requests < 2
    THEN /\ run.pc = "http"
         /\ run' = [run EXCEPT !.requests = @ + 1]
         /\ UNCHANGED <<search_conv, api_conv, api_key, key_saved_by>>
    ELSE /\ run.pc = "http"
         /\ run' = [run EXCEPT !.pc = "done", !.resp = resp,
                               !.replies = <<reply_text(run.update,
                                                        TransportErrorText)>>]
         /\ UNCHANGED <<search_conv, api_conv, api_key, key_saved_by>>

\* requests.post returns or raises: the rest of call_universal_api and of
\* the handler that called it.  Were an exception to leave the handler, it
\* would send nothing and the conversation would keep its state.
requests_post_returns(resp) ==
    /\ run.pc = "http"
    /\ LET result == api_result(resp, run.query)
       IN  /\ run' = [run EXCEPT
                          !.pc = "done", !.resp = resp,
                          !.logged = result.logged,
                          !.replies = IF result.raised THEN <<>>
                                      ELSE <<reply_text(run.update,
                                                        result.text)>>]
           /\ search_conv' =
                  IF run.handler = "perform_search" /\ ~result.raised
                  THEN conv_update(search_conv, run.update.session, END)
                  ELSE search_conv
    /\ UNCHANGED <<api_conv, api_key, key_saved_by>>

\* cancel is the fallback of both conversations; it ends the one that
\* accepted the update.
cancel(u) ==
    /\ Dispatch(u, "cancel")
    /\ run' = [Invocation(u, Route(u)) EXCEPT
                   !.replies = <<reply_text(u, CancelText)>>]
    /\ IF Route(u).conv = "search_conv"
       THEN /\ search_conv' = conv_update(search_conv, u.session, END)
            /\ UNCHANGED api_conv
       ELSE /\ api_conv' = conv_update(api_conv, u.session, END)
            /\ UNCHANGED search_conv
    /\ UNCHANGED <<api_key, key_saved_by>>

setup_api(u) ==
    /\ Dispatch(u, "setup_api")
    /\ run' = [Invocation(u, Route(u)) EXCEPT
                   !.replies = <<reply_text(u, ApiKeyPrompt)>>]
    /\ api_conv' = conv_update(api_conv, u.session, API_SETUP)
    /\ UNCHANGED <<search_conv, api_key, key_saved_by>>

save_api_key(u) ==
    /\ Dispatch(u, "save_api_key")
    /\ api_key' = strip(u.text)
    /\ key_saved_by' = u.session
    /\ run' = [Invocation(u, Route(u)) EXCEPT
                   !.replies = <<reply_text(u, ApiKeySavedText)>>]
    /\ api_conv' = conv_update(api_conv, u.session, END)
    /\ UNCHANGED search_conv

\* No handler accepts the update: nothing runs and nothing is sent.
unhandled(u) ==
    /\ Dispatch(u, "none")
    /\ run' = Invocation(u, Route(u))
    /\ UNCHANGED <<search_conv, api_conv, api_key, key_saved_by>>

\* In Spec every update is dispatched as it arrives: the queue stays empty.
QueueUntouched == UNCHANGED <<update_queue, format_call>>

Next ==
    \/ \E u \in Updates : start(u) /\ QueueUntouched
    \/ \E u \in Updates : help(u) /\ QueueUntouched
    \/ \E u \in Updates : search(u) /\ QueueUntouched
    \/ \E u \in Updates : perform_search(u) /\ QueueUntouched
    \/ \E u \in Updates : handle_message(u) /\ QueueUntouched
    \/ \E u \in Updates : cancel(u) /\ QueueUntouched
    \/ \E u \in Updates : setup_api(u) /\ QueueUntouched
    \/ \E u \in Updates : save_api_key(u) /\ QueueUntouched
    \/ \E u \in Updates : unhandled(u) /\ QueueUntouched
    \/ \E resp \in Responses :
           requests_post_returns(resp) /\ QueueUntouched

Spec == Init /\ [][Next]_vars

----------------------------------------------------------------------------
(* run_polling: updates wait in application.update_queue until the        *)
(* application takes them, oldest first, one at a time.                    *)

MaxQueue == 2

\* The updates and API answers of the specification with the queue.
QueueUpdates ==
    [session : Sessions, text : {<<"a">>} \cup (CommandTexts \ {<<"/other">>})]

QueueResponses ==
    {r \in Responses :
        \/ r.kind = "timeout"
        \/ r.status = 401
        \/ r.is_json /\ r.json.has_results /\ r.json.results = <<FullFinding>>}

\* The updater puts a fetched update at the end of the queue.
receive(u) ==
    /\ Len(update_queue) < MaxQueue
    /\ update_queue' = Append(update_queue, u)
    /\ UNCHANGED <<search_conv, api_conv, api_key, key_saved_by, run,
                   format_call>>

\* update_queue.get(): the oldest update leaves the queue.
next_update == Head(update_queue)

take ==
    /\ update_queue # <<>>
    /\ update_queue' = Tail(update_queue)
    /\ UNCHANGED format_call

NextQueue ==
    \/ \E u \in QueueUpdates : receive(u)
    \/ take /\ start(next_update)
    \/ take /\ help(next_update)
    \/ take /\ search(next_update)
    \/ take /\ perform_search(next_update)
    \/ take /\ handle_message(next_update)
    \/ take /\ cancel(next_update)
    \/ take /\ setup_api(next_update)
    \/ take /\ save_api_key(next_update)
    \/ take /\ unhandled(next_update)
    \/ \E resp \in QueueResponses :
           requests_post_returns(resp) /\ QueueUntouched

SpecQueue == Init /\ [][NextQueue]_vars

----------------------------------------------------------------------------
(* format_api_response on its own: one call on arguments drawn from        *)
(* bounded sets.                                                           *)

MaxFindings == 2

TwoDetailFinding ==
    [is_mapping |-> TRUE, has_type |-> TRUE, type |-> "ip",
     has_value |-> TRUE, value |-> "127.0.0.1",
     has_details |-> TRUE,
     details |-> <<<<"country", "RU">>, <<"source", "leak2">>>>]

FormatFindings ==
    {FullFinding, BareFinding, PhoneFinding, TwoDetailFinding, NotAFinding}

FormatData ==
    [is_mapping : {TRUE}, has_results : {TRUE},
     results : SeqsUpTo(FormatFindings, MaxFindings)]
    \cup {[is_mapping |-> TRUE, has_results |-> FALSE, results |-> <<>>],
          [is_mapping |-> FALSE, has_results |-> FALSE, results |-> <<>>]}

FormatQueries == {<<"q">>, <<"a", " ", "b">>, <<>>}

InitFormat ==
    /\ search_conv = [s \in Sessions |-> END]
    /\ api_conv = [s \in Sessions |-> END]
    /\ api_key \in InitialKeys
    /\ key_saved_by = "env"
    /\ run = Invocation(NoUpdate, [handler |-> "none", conv |-> "none"])
    /\ update_queue = <<>>
    /\ format_call \in [data : FormatData, query : FormatQueries,
                      returned : {FALSE}, raised : {FALSE}, text : {<<>>}]

format_returns ==
    /\ ~format_call.returned
    /\ LET result == format_api_response(format_call.data, format_call.query)
       IN  format_call' = [format_call EXCEPT !.returned = TRUE,
                                          !.raised = result.raised,
                                          !.text = result.text]
    /\ UNCHANGED <<search_conv, api_conv, api_key, key_saved_by, run,
                   update_queue>>

NextFormat == format_returns

SpecFormat == InitFormat /\ [][NextFormat]_vars

----------------------------------------------------------------------------
(* The session states of the specification, read off the two tables *)

AwaitingSearch(s) == search_conv[s] = SEARCH

AwaitingApiKey(s) == api_conv[s] = API_SETUP

Idle(s) == search_conv[s] = END /\ api_conv[s] = END

----------------------------------------------------------------------------
(* Vocabulary of the properties *)

\* An update has been dispatched and whatever handled it has returned.
Handled == run.pc = "done" /\ run.update.session \in Sessions

\* Exactly one message was sent, to the session of the update, with text.
OneReply(text) ==
    run.replies = <<[chat |-> run.update.session, text |-> text]>>

\* The text without its leading and trailing whitespace.
Trimmed(t) ==
    LET solid == {i \in 1..Len(t) : t[i] \notin Whitespace}
    IN  IF solid = {} THEN <<>>
        ELSE SubSeq(t, CHOOSE i \in solid : \A j \in solid : i <= j,
                       CHOOSE i \in solid : \A j \in solid : i >= j)

\* sub occurs in text, chunk for chunk.
Contains(text, sub) ==
    \E i \in 0..(Len(text) - Len(sub)) :
        SubSeq(text, i + 1, i + Len(sub)) = sub

\* The body of a 200 response parses into a mapping whose "results", when
\* present, is an array of mappings.
Parseable(resp) ==
    /\ resp.is_json
    /\ resp.json.is_mapping
    /\ \A i \in 1..Len(resp.json.results) : resp.json.results[i].is_mapping

Success(resp) == resp.kind = "response" /\ resp.status = 200 /\ Parseable(resp)

\* The handler that ran was a search handler and its lookup ended in one of
\* the five error kinds.
LookupFailed ==
    /\ Handled
    /\ run.lookups = 1
    /\ run.requests = 0 \/ ~Success(run.resp)

ErrorTexts ==
    {NotConfiguredText, InvalidKeyText, QuotaExceededText, TransportErrorText}
    \cup {UpstreamErrorText(c) : c \in StatusCodes \ {200, 401, 402}}

----------------------------------------------------------------------------
(* Properties *)

\* C1: no session awaits a search query and an API key at the same time,
\* and after a terminal handler (completed search, saved key, cancel,
\* unscoped message) the session of the update is IDLE.
C1_OneStateAndIdleAfterTerminal ==
    /\ \A s \in Sessions : ~(AwaitingSearch(s) /\ AwaitingApiKey(s))
    /\ (Handled /\ run.handler \in {"perform_search", "save_api_key",
                                    "cancel", "handle_message"})
       => Idle(run.update.session)

\* C2: in whatever state the session was, after the search command the
\* session awaits a search query and exactly one reply, the prompt, was
\* sent to it.
C2_SearchCommandAlwaysPrompts ==
    (Handled /\ CommandIs(run.update, "/search"))
    => /\ AwaitingSearch(run.update.session)
       /\ OneReply(SearchPrompt)

\* C3: the key a lookup of a session uses was never written by another
\* session: it comes from the environment or from that session's own
\* set-API-key flow.
C3_KeyScopedPerSession ==
    run.lookups = 1
    => run.before.key_saved_by \in {"env", run.update.session}

\* C4: a non-command text received while the session awaits an API key
\* makes the API key that text trimmed, is answered by one confirmation and
\* leaves the session IDLE.
C4_TextWhileAwaitingKeyIsSaved ==
    (Handled /\ IsPlainText(run.update) /\ run.before.api = API_SETUP)
    => /\ api_key = Trimmed(run.update.text)
       /\ OneReply(ApiKeySavedText)
       /\ Idle(run.update.session)

\* C5: a lookup made while the API key is the placeholder returns the
\* not-configured answer and issues no HTTP request.
C5_SentinelKeyNoRequest ==
    (run.lookups = 1 /\ run.before.key = SentinelKey)
    => /\ run.pc = "done"
       /\ run.requests = 0
       /\ run.resp = NoResponse
       /\ OneReply(NotConfiguredText)

C5_Witness ==
    /\ Handled
    /\ run.handler = "perform_search"
    /\ run.lookups = 1
    /\ run.before.key = SentinelKey
    /\ run.query = <<"a">>

\* C6: with a configured key the answer of a lookup is decided by the
\* transport result alone: 200 with a parseable body gives the formatted
\* results, 401 the invalid-key text, 402 the quota text, another status
\* the upstream text with that status, and a network, timeout or parse
\* failure the transport text; in each case the handler returns and sends
\* its answer.
C6_OutcomeByTransportResult ==
    (Handled /\ run.requests = 1)
    => LET resp == run.resp
       IN  /\ resp \in Responses
           /\ resp.kind # "response" => OneReply(TransportErrorText)
           /\ resp.kind = "response" =>
                /\ resp.status = 200 /\ Parseable(resp) =>
                     OneReply(format_api_response(resp.json, run.query).text)
                /\ resp.status = 200 /\ ~Parseable(resp) =>
                     OneReply(TransportErrorText)
                /\ resp.status = 401 =>
                     OneReply(<<"U+274C", " Invalid API key.">>)
                /\ resp.status = 402 =>
                     OneReply(<<"U+274C", " API quota exceeded.">>)
                /\ resp.status \notin {200, 401, 402} =>
                     OneReply(<<"U+274C", " API error: ",
                                ToString(resp.status)>>)

C6_Witness ==
    /\ Handled
    /\ run.requests = 1
    /\ run.resp.kind = "response"
    /\ run.resp.status = 200
    /\ run.resp.is_json
    /\ ~Parseable(run.resp)
    /\ OneReply(TransportErrorText)

\* C7: a search attempt, scoped or unscoped, that ends in an error sends
\* exactly one message, an error text, to the session it came from and
\* none to another session.
C7_OneReplyPerError ==
    LookupFailed
    => /\ Len(run.replies) = 1
       /\ run.replies[1].chat = run.update.session
       /\ run.replies[1].text \in ErrorTexts

C7_Witness ==
    /\ LookupFailed
    /\ run.handler = "handle_message"
    /\ run.update.session = "B"
    /\ run.resp.kind = "response"
    /\ run.resp.status = 500
    /\ Len(run.replies) = 1

\* C8: a non-command text received while the session awaits a search query
\* is looked up, and once the lookup has ended, however it ended, the
\* session is IDLE.
C8_SearchEndsIdle ==
    (Handled /\ IsPlainText(run.update) /\ run.before.search = SEARCH)
    => /\ run.lookups = 1
       /\ Idle(run.update.session)

\* C9: the cancel command received while the session awaits a search query
\* or an API key is answered by the cancellation text alone, leaves the
\* session IDLE, performs no lookup and leaves the API key as it was.
C9_CancelEndsIdle ==
    (/\ Handled
     /\ CommandIs(run.update, "/cancel")
     /\ run.before.search = SEARCH \/ run.before.api = API_SETUP)
    => /\ OneReply(CancelText)
       /\ Idle(run.update.session)
       /\ run.lookups = 0
       /\ api_key = run.before.key

\* What C10 says of the reply to an unscoped text: one reply; when the API
\* answered with results, the rendered results, which for one finding hold
\* the count 1, the finding's value and each of its detail lines.
C10_RenderedReply ==
    /\ Len(run.replies) = 1
    /\ run.replies[1].chat = run.update.session
    /\ run.requests = 0 => run.replies[1].text = NotConfiguredText
    /\ (run.requests = 1 /\ Success(run.resp)) =>
         LET text == run.replies[1].text
             results == run.resp.json.results
         IN  /\ text = format_api_response(run.resp.json, run.query).text
             /\ Len(results) = 1 =>
                  /\ Contains(text, <<" Found ", "1", " results.\n\n">>)
                  /\ results[1].has_value =>
                         Contains(text, <<results[1].value>>)
                  /\ \A i \in 1..Len(results[1].details) :
                       Contains(text, <<results[1].details[i][1], ": ",
                                        results[1].details[i][2], "\n">>)

UnscopedTextHandled ==
    /\ Handled
    /\ IsPlainText(run.update)
    /\ run.before.search = END
    /\ run.before.api = END

\* C10 as stated: an IDLE session that receives a non-command text looks
\* that text up, replies with the rendered result and is still IDLE.
C10_UnscopedTextLookedUpAsIs ==
    UnscopedTextHandled
    => /\ run.lookups = 1
       /\ run.query = run.update.text
       /\ C10_RenderedReply
       /\ Idle(run.update.session)

\* C10 amended: an IDLE session that receives a non-command text looks up
\* that text with its surrounding whitespace trimmed, replies with the
\* rendered result and is still IDLE.
C10_UnscopedTextLookedUpTrimmed ==
    UnscopedTextHandled
    => /\ run.lookups = 1
       /\ run.query = Trimmed(run.update.text)
       /\ C10_RenderedReply
       /\ Idle(run.update.session)

C10_Witness ==
    /\ UnscopedTextHandled
    /\ run.handler = "handle_message"
    /\ run.update.text = <<" ", "a">>
    /\ run.query = <<"a">>
    /\ run.requests = 1
    /\ run.resp.status = 200
    /\ run.resp.json.results = <<FullFinding>>
    /\ Contains(run.replies[1].text, <<"source", ": ", "leak1", "\n">>)
    /\ Idle(run.update.session)

\* C11: the updates of a session are handled in the order they arrived, and
\* while a handler is suspended in its HTTP call no other update leaves the
\* queue: the next one is taken only once the handler has returned, with its
\* state change made and its reply sent.
C11_InOrderOneAtATime ==
    [][/\ run.pc = "http" =>
            /\ run'.update = run.update
            /\ Len(update_queue') >= Len(update_queue)
       /\ Len(update_queue') < Len(update_queue) =>
            /\ run.pc = "done"
            /\ LET mine == {i \in 1..Len(update_queue) :
                              update_queue[i].session = run'.update.session}
               IN  /\ mine # {}
                   /\ \E i \in mine :
                        /\ \A j \in mine : i <= j
                        /\ run'.update = update_queue[i]
                        /\ update_queue' =
                             SubSeq(update_queue, 1, i - 1)
                             \o SubSeq(update_queue, i + 1, Len(update_queue))
      ]_vars

C11_Witness ==
    /\ run.pc = "http"
    /\ Len(update_queue) = 2
    /\ update_queue[1].session = run.update.session
    /\ update_queue[1].text = <<"/cancel">>
    /\ update_queue[2].session # run.update.session

\* The findings format_api_response was called with.
Findings ==
    IF format_call.data.has_results THEN format_call.data.results ELSE <<>>

\* The call has returned and its argument was a result set: a mapping
\* whose findings are mappings.
FormattedResultSet ==
    /\ format_call.returned
    /\ format_call.data.is_mapping
    /\ \A i \in 1..Len(Findings) : Findings[i].is_mapping

\* The text has no finding block and no count line.
NoBlockNoCount(text) ==
    \A i \in 1..Len(text) :
        text[i] \notin {" Type: ", " Value: ", "U+2500", " Found "}

\* C12 as stated: for zero findings (results empty or absent) and query q
\* the result is exactly "no results found for: q".
C12_NoResultsTextAsStated ==
    (FormattedResultSet /\ Findings = <<>>)
    => /\ ~format_call.raised
       /\ format_call.text = <<"no results found for: ">> \o format_call.query

\* C12 amended: for zero findings (results empty or absent) and query q the
\* result is exactly U+1F50D followed by " No results found for: q", with no
\* finding block and no count line.
C12_NoResultsText ==
    (FormattedResultSet /\ Findings = <<>>)
    => /\ ~format_call.raised
       /\ format_call.text =
              <<"U+1F50D", " No results found for: ">> \o format_call.query
       /\ NoBlockNoCount(SubSeq(format_call.text, 1,
                                Len(format_call.text) - Len(format_call.query)))

C12_Witness ==
    /\ FormattedResultSet
    /\ ~format_call.data.has_results
    /\ format_call.query = <<"q">>
    /\ format_call.text = <<"U+1F50D", " No results found for: ", "q">>

\* The parts of a formatted result set that C13 names.  BlockStart(k) is
\* the position just before the k-th block: after the header and the
\* k - 1 blocks before it, each as long as its finding requires.
ResultsHeader ==
    <<"U+1F50D", " Results for: ">> \o format_call.query \o <<"\n\n">>

SummaryLine(n) == <<"U+1F4CA", " Found ", ToString(n), " results.\n\n">>

DetailsOf(f) == IF f.has_details THEN f.details ELSE <<>>

BlockLength(f) == 8 + 5 * Len(DetailsOf(f)) + DividerWidth + 1

RECURSIVE BlockStart(_)
BlockStart(k) ==
    IF k = 1 THEN Len(ResultsHeader)
    ELSE BlockStart(k - 1) + BlockLength(Findings[k - 1])

\* The block at position k of the text is the block of finding f: its type
\* line, its value line, one indented line per detail pair in order, and
\* the divider.
IsBlockOf(text, k, f) ==
    LET at == BlockStart(k)
        d == DetailsOf(f)
        div == at + 8 + 5 * Len(d)
    IN  /\ SubSeq(text, at + 1, at + 2) = <<"U+1F4CB", " Type: ">>
        /\ f.has_type => text[at + 3] = f.type
        /\ SubSeq(text, at + 4, at + 6) = <<"\n", "U+1F50E", " Value: ">>
        /\ f.has_value => text[at + 7] = f.value
        /\ text[at + 8] = "\n"
        /\ \A j \in 1..Len(d) :
               SubSeq(text, at + 5 * j + 4, at + 5 * j + 8)
                   = <<"  - ", d[j][1], ": ", d[j][2], "\n">>
        /\ \A m \in 1..DividerWidth : text[div + m] = "U+2500"
        /\ text[div + DividerWidth + 1] = "\n\n"

\* C13: for n >= 1 findings the text is the header for the query, then
\* exactly n blocks in the order of the findings, each with the finding's
\* type, value, one indented line per detail pair and the divider, then one
\* summary line with the count n (the credit line closes the text).
C13_HeaderBlocksSummary ==
    (FormattedResultSet /\ Len(Findings) >= 1)
    => LET text == format_call.text
           n == Len(Findings)
           end == BlockStart(n + 1)
       IN  /\ ~format_call.raised
           /\ SubSeq(text, 1, Len(ResultsHeader)) = ResultsHeader
           /\ \A k \in 1..n : IsBlockOf(text, k, Findings[k])
           /\ SubSeq(text, end + 1, end + 4) = SummaryLine(n)
           /\ Len(text) = end + 6
           /\ \A i \in 1..Len(text) :
                  text[i] = " Found " => i = end + 2

C13_Witness ==
    /\ FormattedResultSet
    /\ Len(Findings) = 2
    /\ Findings[1] = TwoDetailFinding
    /\ Findings[2] = BareFinding
    /\ format_call.query = <<"a", " ", "b">>
    /\ Len(format_call.text) = Len(ResultsHeader) + 49 + 39 + 6

\* The handlers that look a query up.
SearchHandlers == {"perform_search", "handle_message"}

\* C15: a lookup issues at most one HTTP POST.  Only a search handler sends
\* a request, at most one per message it handles, and whatever comes back
\* (any status, a connection failure, a timeout) the handler ends without
\* sending another.
C15_AtMostOnePostPerLookup ==
    [][/\ run'.requests <= run'.lookups
       /\ run'.lookups <= 1
       /\ run'.lookups = 1 => run'.handler \in SearchHandlers
       /\ run.pc = "http" =>
              /\ run'.pc = "done"
              /\ run'.update = run.update
              /\ run'.requests = run.requests
      ]_vars

C15_Witness ==
    /\ Handled
    /\ run.handler = "handle_message"
    /\ run.requests = 1
    /\ run.resp.kind = "timeout"

\* A Transport failure: no response arrived (connection failure, timeout)
\* or the body of a 200 response could not be read as a result set.
TransportFailure(resp) ==
    \/ resp.kind \in {"timeout", "connection_error"}
    \/ resp.kind = "response" /\ resp.status = 200 /\ ~Parseable(resp)

\* C16: the reply for a Transport failure does not depend on the failure
\* detail: whichever way the request failed, the user gets the one generic
\* "Error contacting API." text, and the detail goes to the log only.
C16_TransportReplyIsGeneric ==
    (Handled /\ run.requests = 1 /\ TransportFailure(run.resp))
    => /\ OneReply(<<"U+274C", " Error contacting API.">>)
       /\ run.logged

C16_Witness ==
    /\ Handled
    /\ run.handler = "perform_search"
    /\ run.requests = 1
    /\ run.resp.kind = "connection_error"
    /\ OneReply(<<"U+274C", " Error contacting API.">>)

\* The session of the update is, after the handler, in the state it was in
\* when the update was dispatched.
SessionStateKept ==
    /\ search_conv[run.update.session] = run.before.search
    /\ api_conv[run.update.session] = run.before.api

\* C17: /start and /help, in any session state, send one static reply,
\* leave the state of the session and the API key as they were, and look
\* nothing up.
C17_StartHelpAreStatic ==
    (Handled /\ Head(run.update.text) \in {"/start", "/help"})
    => /\ run.handler = IF Head(run.update.text) = "/start" THEN "start"
                       ELSE "help"
       /\ OneReply(IF run.handler = "start" THEN WelcomeText ELSE HelpText)
       /\ SessionStateKept
       /\ api_key = run.before.key
       /\ run.lookups = 0
       /\ run.requests = 0

C17_Witness ==
    /\ Handled
    /\ run.update.text = <<"/help">>
    /\ run.before.search = SEARCH
    /\ run.before.api = API_SETUP
    /\ SessionStateKept
    /\ OneReply(HelpText)

\* The update being handled, or handled last, is a text that is no command.
TextMessage ==
    /\ run.update.session \in Sessions
    /\ run.update.text # <<>>
    /\ Head(run.update.text) \notin {Head(c) : c \in CommandTexts}

\* Nothing of the set-API-key flow happened to the update: the key and who
\* saved it are as before, and so is the API conversation of the session.
NoKeySaved ==
    /\ api_key = run.before.key
    /\ key_saved_by = run.before.key_saved_by
    /\ api_conv[run.update.session] = run.before.api

\* C18: a text message that is no command is handled by one handler.  It is
\* either looked up, once, or saved as the API key, never both, whichever
\* conversations are active; and once handled it has caused exactly one
\* reply.
C18_OneHandlerPerMessage ==
    TextMessage
    => /\ run.handler \in SearchHandlers \cup {"save_api_key"}
       /\ run.lookups <= 1
       /\ run.handler \in SearchHandlers <=> run.lookups = 1
       /\ run.lookups = 1 => NoKeySaved
       /\ run.handler = "save_api_key" =>
              /\ run.requests = 0
              /\ search_conv[run.update.session] = run.before.search
              /\ api_key = Trimmed(run.update.text)
       /\ Handled => Len(run.replies) = 1

C18_Witness ==
    /\ Handled
    /\ TextMessage
    /\ run.before.search = SEARCH
    /\ run.before.api = API_SETUP
    /\ run.lookups = 1
    /\ api_conv[run.update.session] = API_SETUP
    /\ Len(run.replies) = 1

\* The update being handled, or handled last, is flagged as a command.
CommandMessage ==
    /\ run.update.session \in Sessions
    /\ run.update.text # <<>>
    /\ Head(run.update.text) \in {Head(c) : c \in CommandTexts}

\* C19: a command is never consumed as input data.  In every session state
\* a message flagged as a command causes no lookup and no request, and the
\* API key stays what it was.
C19_CommandIsNeverInput ==
    CommandMessage
    => /\ run.handler \notin SearchHandlers \cup {"save_api_key"}
       /\ run.lookups = 0
       /\ run.requests = 0
       /\ run.query = <<>>
       /\ api_key = run.before.key
       /\ key_saved_by = run.before.key_saved_by

C19_Witness ==
    /\ Handled
    /\ run.update.text = <<"/other">>
    /\ run.before.search = SEARCH
    /\ run.before.api = API_SETUP
    /\ run.handler = "none"
    /\ run.replies = <<>>
    /\ SessionStateKept

\* A lookup goes by the key that was in force when its message was
\* dispatched: that key is the bearer credential of the one request when it
\* is neither empty nor the sentinel, and otherwise no request is made and
\* the reply is the not-configured text.
LookupUsesKeyInForce ==
    run.lookups = 1
    => IF run.before.key = <<>> \/ run.before.key = <<"YOUR_API_KEY_HERE">>
       THEN /\ run.requests = 0
            /\ OneReply(NotConfiguredText)
       ELSE /\ run.requests = 1
            /\ run.bearer = run.before.key

\* C20: after a session saved a key K, the lookups of that session use K
\* until the session saves another key.  The key in force changes only
\* when the session that saved it saves another one, and every lookup goes
\* by the key in force: K as the bearer credential when K is neither empty
\* nor the sentinel, the not-configured reply and no request otherwise.
C20_SavedKeyUsedUntilNextSave ==
    [][/\ (key_saved_by \in Sessions /\ api_key' # api_key)
              => run'.update.session = key_saved_by
       /\ LookupUsesKeyInForce'
      ]_vars

====
